---- MODULE Spec2Model ----
(***************************************************************************)
(* Model of the in-memory repository (MemStorage, src/storage.ts) of the   *)
(* contact manager and of the request handlers built on it                 *)
(* (src/routes.js).                                                        *)
(*                                                                         *)
(* Representation.                                                         *)
(*  - A JavaScript object is a function from its own keys to values; a     *)
(*    key that is not in the DOMAIN reads as undefined (Get).              *)
(*  - A string is a tuple of one-character strings, wrapped in a record    *)
(*    that also represents null and undefined:                             *)
(*        [kind |-> "string", s |-> <<"A","c">>], Null, Undefined.         *)
(*  - A Map is the sequence of its entries [key, val] in insertion order.  *)
(*  - randomUUID() is the counter uuid: every call returns a fresh id.     *)
(*  - new Date() reads the clock now, an integer number of ticks; a local  *)
(*    calendar day is DayLen ticks long.                                   *)
(*  - conversionRate is kept in tenths of a percent (500 is 50.0).         *)
(***************************************************************************)
EXTENDS Integers, Sequences, FiniteSets, TLC

VARIABLES users, contacts, activities, uuid, now, ret, reqs

vars == <<users, contacts, activities, uuid, now, ret, reqs>>

(***************************************************************************)
(* Bounds of the model.                                                    *)
(***************************************************************************)
MaxContacts == 2
MaxActivities == 2
MaxUsers == 1
MaxIds == 3
MaxClock == 2
DayLen == 2
MaxDays == 2
TodayMaxActivities == 3
MetricsMaxContacts == 4
QueryMaxContacts == 2
MaxReqs == 2

(***************************************************************************)
(* JavaScript values.                                                      *)
(***************************************************************************)
Undefined == [kind |-> "undefined", s |-> <<>>]
Null == [kind |-> "null", s |-> <<>>]
Str(t) == [kind |-> "string", s |-> t]

\* a Date object
Date(t) == [kind |-> "date", s |-> <<t>>]

\* v is truthy: a non-empty string or a Date (null, undefined and "" are falsy)
Truthy(v) == (v.kind = "string" /\ v.s # <<>>) \/ v.kind = "date"

\* the expression  v || null
OrNull(v) == IF Truthy(v) THEN v ELSE Null

\* property read obj.f
Get(obj, f) == IF f \in DOMAIN obj THEN obj[f] ELSE Undefined

\* object spread { ...a, ...b }
Spread(a, b) ==
  [f \in (DOMAIN a) \cup (DOMAIN b) |-> IF f \in DOMAIN b THEN b[f] ELSE a[f]]

\* String.prototype.toLowerCase on the characters the model uses
LowerChar(c) ==
  CASE c = "A" -> "a"
    [] c = "B" -> "b"
    [] c = "C" -> "c"
    [] c = "L" -> "l"
    [] c = "O" -> "o"
    [] c = "X" -> "x"
    [] OTHER -> c

toLowerCase(t) == [i \in 1..Len(t) |-> LowerChar(t[i])]

\* String.prototype.includes
includes(t, sub) ==
  \E i \in 0..(Len(t) - Len(sub)) : \A j \in 1..Len(sub) : t[i + j] = sub[j]

(***************************************************************************)
(* Map: entries in insertion order.                                        *)
(***************************************************************************)
MapKeys(m) == {m[i].key : i \in 1..Len(m)}
MapHas(m, k) == k \in MapKeys(m)
MapIndex(m, k) == CHOOSE i \in 1..Len(m) : m[i].key = k
MapGet(m, k) == IF MapHas(m, k) THEN m[MapIndex(m, k)].val ELSE Undefined
MapSet(m, k, v) ==
  IF MapHas(m, k)
    THEN [m EXCEPT ![MapIndex(m, k)] = [key |-> k, val |-> v]]
    ELSE Append(m, [key |-> k, val |-> v])
MapDelete(m, k) == SelectSeq(m, LAMBDA e : e.key # k)
MapValues(m) == [i \in 1..Len(m) |-> m[i].val]

(***************************************************************************)
(* Array.prototype.sort with the comparator                                *)
(*   (a, b) => new Date(b[field]).getTime() - new Date(a[field]).getTime() *)
(* The sort is stable: elements the comparator calls equal keep their      *)
(* order.  InsertDesc puts x after every element that is not older.        *)
(***************************************************************************)
RECURSIVE InsertDesc(_, _, _)
InsertDesc(sorted, x, field) ==
  IF sorted = <<>>
    THEN <<x>>
    ELSE IF x[field] - Head(sorted)[field] > 0
           THEN <<x>> \o sorted
           ELSE <<Head(sorted)>> \o InsertDesc(Tail(sorted), x, field)

RECURSIVE SortDescFrom(_, _, _)
SortDescFrom(sorted, rest, field) ==
  IF rest = <<>>
    THEN sorted
    ELSE SortDescFrom(InsertDesc(sorted, Head(rest), field), Tail(rest), field)

SortDesc(arr, field) == SortDescFrom(<<>>, arr, field)

(***************************************************************************)
(* MemStorage: users.                                                      *)
(***************************************************************************)
getUser(id) == MapGet(users, id)

getUserByUsername(username) ==
  LET found == SelectSeq(MapValues(users), LAMBDA user : user.username = username)
  IN IF found = <<>> THEN Undefined ELSE Head(found)

createUser(insertUser) ==
  LET id == uuid + 1
      user == Spread(insertUser, [id |-> id])
  IN /\ users' = MapSet(users, id, user)
     /\ uuid' = id
     /\ ret' = [op |-> "createUser", arg |-> insertUser, result |-> user]
     /\ UNCHANGED <<contacts, activities, now>>

(***************************************************************************)
(* MemStorage: contacts.                                                   *)
(***************************************************************************)
\* a search that forgets the company
MatchesSearch_NameAndEmail(contact, searchLower) ==
  \/ includes(toLowerCase(contact["name"].s), searchLower)
  \/ includes(toLowerCase(contact["email"].s), searchLower)

\* the three filter callbacks of getContacts
MatchesSearch(contact, searchLower) ==
  \/ includes(toLowerCase(contact["name"].s), searchLower)
  \/ includes(toLowerCase(contact["email"].s), searchLower)
  \/ /\ Truthy(Get(contact, "company"))
     /\ includes(toLowerCase(contact["company"].s), searchLower)

SearchActive(filters) == Truthy(Get(filters, "search"))

CompanyActive(filters) ==
  Truthy(Get(filters, "company")) /\ filters["company"] # Str(<<"a", "l", "l">>)

StatusActive(filters) ==
  Truthy(Get(filters, "status")) /\ filters["status"] # Str(<<"a", "l", "l">>)

FilterContacts(all, filters) ==
  LET bySearch ==
        IF SearchActive(filters)
          THEN SelectSeq(all, LAMBDA contact :
                 MatchesSearch(contact, toLowerCase(filters["search"].s)))
          ELSE all
      byCompany ==
        IF CompanyActive(filters)
          THEN SelectSeq(bySearch, LAMBDA contact :
                 Get(contact, "company") = filters["company"])
          ELSE bySearch
      byStatus ==
        IF StatusActive(filters)
          THEN SelectSeq(byCompany, LAMBDA contact :
                 Get(contact, "status") = filters["status"])
          ELSE byCompany
  IN byStatus

\* getContacts without its final sort: the Map's insertion order
getContacts_Unsorted(filters) == FilterContacts(MapValues(contacts), filters)

getContacts(filters) ==
  SortDesc(FilterContacts(MapValues(contacts), filters), "updatedAt")

getContact(id) == MapGet(contacts, id)

NewContact(insertContact, id, date) ==
  Spread(insertContact,
         [title |-> OrNull(Get(insertContact, "title")),
          phone |-> OrNull(Get(insertContact, "phone")),
          company |-> OrNull(Get(insertContact, "company")),
          notes |-> OrNull(Get(insertContact, "notes")),
          id |-> id,
          createdAt |-> date,
          updatedAt |-> date])

createContact(insertContact) ==
  LET id == uuid + 1
      contact == NewContact(insertContact, id, now)
  IN /\ contacts' = MapSet(contacts, id, contact)
     /\ uuid' = id
     /\ ret' = [op |-> "createContact", arg |-> insertContact, result |-> contact]
     /\ UNCHANGED <<users, activities, now>>

MergeContact(existing, contactUpdate, date) ==
  Spread(Spread(existing, contactUpdate), [updatedAt |-> date])

updateContact(id, contactUpdate) ==
  IF ~MapHas(contacts, id)
    THEN /\ ret' = [op |-> "updateContact", arg |-> <<id, contactUpdate>>,
                    result |-> Undefined]
         /\ UNCHANGED <<users, contacts, activities, uuid, now>>
    ELSE LET updated == MergeContact(MapGet(contacts, id), contactUpdate, now)
         IN /\ contacts' = MapSet(contacts, id, updated)
            /\ ret' = [op |-> "updateContact", arg |-> <<id, contactUpdate>>,
                       result |-> updated]
            /\ UNCHANGED <<users, activities, uuid, now>>

\* the forEach of deleteContact: the activities left once those of id are deleted
\* a cascade that compares the activity's own id instead of its contactId
CascadeDelete_ByActivityId(acts, id) == SelectSeq(acts, LAMBDA e : e.key # id)

CascadeDelete(acts, id) == SelectSeq(acts, LAMBDA e : e.val["contactId"] # id)

\* a delete that removes the contact and leaves the cascade for later
deleteContact_NoCascade(id) ==
  /\ contacts' = MapDelete(contacts, id)
  /\ ret' = [op |-> "deleteContact", arg |-> id, result |-> MapHas(contacts, id),
             cascaded |-> 0]
  /\ UNCHANGED <<users, activities, uuid, now>>

\* ret.cascaded observes how many activities the call deleted
deleteContact(id) ==
  LET deleted == MapHas(contacts, id)
  IN /\ contacts' = MapDelete(contacts, id)
     /\ activities' = CascadeDelete(activities, id)
     /\ ret' = [op |-> "deleteContact", arg |-> id, result |-> deleted,
                cascaded |-> Len(activities) - Len(activities')]
     /\ UNCHANGED <<users, uuid, now>>

(***************************************************************************)
(* MemStorage: activities.                                                 *)
(***************************************************************************)
\* contactId is an id, or NoId when the argument is undefined (falsy)
NoId == 0

getActivities(contactId) ==
  LET all == MapValues(activities)
      matching ==
        IF contactId # NoId
          THEN SelectSeq(all, LAMBDA activity : activity["contactId"] = contactId)
          ELSE all
  IN SortDesc(matching, "createdAt")

NewActivity(insertActivity, id, date) ==
  Spread(insertActivity,
         [description |-> OrNull(Get(insertActivity, "description")),
          scheduledAt |-> OrNull(Get(insertActivity, "scheduledAt")),
          completedAt |-> OrNull(Get(insertActivity, "completedAt")),
          id |-> id,
          createdAt |-> date])

createActivity(insertActivity) ==
  LET id == uuid + 1
      activity == NewActivity(insertActivity, id, now)
  IN /\ activities' = MapSet(activities, id, activity)
     /\ uuid' = id
     /\ ret' = [op |-> "createActivity", arg |-> insertActivity, result |-> activity]
     /\ UNCHANGED <<users, contacts, now>>

(***************************************************************************)
(* MemStorage: dashboard metrics.                                          *)
(***************************************************************************)
Prospect == Str(<<"p", "r", "o", "s", "p", "e", "c", "t">>)
Active == Str(<<"a", "c", "t", "i", "v", "e">>)

\* today.setHours(0, 0, 0, 0): local midnight of the day of date
StartOfDay(date) == date - (date % DayLen)

\* tomorrow.setDate(tomorrow.getDate() + 1)
NextDay(date) == date + DayLen

\* a rounding that truncates
MathRound_Truncate(num, den) == num \div den

\* Math.round of the quotient num / den, den > 0: floor(num / den + 1/2)
MathRound(num, den) == (2 * num + den) \div (2 * den)

\* Math.round(conversionRate * 10), the rate in tenths of a percent.  The
\* quotient is exact here; the doubles of the code give the same tenths for
\* every totalContacts below 80.
ConversionRate(activeContacts, totalContacts) ==
  IF totalContacts > 0
    THEN MathRound(activeContacts * 100 * 10, totalContacts)
    ELSE 0

\* an interval that is open at midnight today
IsToday_AfterMidnight(activity, today, tomorrow) ==
  activity["createdAt"] > today /\ activity["createdAt"] < tomorrow

IsToday(activity, today, tomorrow) ==
  activity["createdAt"] >= today /\ activity["createdAt"] < tomorrow

getMetrics ==
  LET cs == MapValues(contacts)
      as == MapValues(activities)
      totalContacts == Len(cs)
      activeLeads == Len(SelectSeq(cs, LAMBDA c : Get(c, "status") = Prospect))
      today == StartOfDay(now)
      tomorrow == NextDay(today)
      todayActivities == Len(SelectSeq(as, LAMBDA a : IsToday(a, today, tomorrow)))
      activeContacts == Len(SelectSeq(cs, LAMBDA c : Get(c, "status") = Active))
  IN [totalContacts |-> totalContacts,
      activeLeads |-> activeLeads,
      todayActivities |-> todayActivities,
      conversionRate |-> ConversionRate(activeContacts, totalContacts)]

(***************************************************************************)
(* Calls of the repository, as steps.  Every step records the call and     *)
(* what it returned in ret.                                                *)
(***************************************************************************)
Returned(op, arg, result) ==
  /\ ret' = [op |-> op, arg |-> arg, result |-> result]
  /\ UNCHANGED <<users, contacts, activities, uuid, now>>

CallCreateUser(insertUser) == createUser(insertUser) /\ UNCHANGED reqs
CallGetUser(id) == Returned("getUser", id, getUser(id)) /\ UNCHANGED reqs
CallGetUserByUsername(username) ==
  Returned("getUserByUsername", username, getUserByUsername(username))
  /\ UNCHANGED reqs
CallCreateContact(insertContact) == createContact(insertContact) /\ UNCHANGED reqs
CallUpdateContact(id, contactUpdate) ==
  updateContact(id, contactUpdate) /\ UNCHANGED reqs
CallDeleteContact(id) == deleteContact(id) /\ UNCHANGED reqs
CallGetContact(id) == Returned("getContact", id, getContact(id)) /\ UNCHANGED reqs
CallGetContacts(filters) ==
  Returned("getContacts", filters, getContacts(filters)) /\ UNCHANGED reqs
CallCreateActivity(insertActivity) ==
  createActivity(insertActivity) /\ UNCHANGED reqs
CallGetActivities(contactId) ==
  Returned("getActivities", contactId, getActivities(contactId)) /\ UNCHANGED reqs
CallGetMetrics == Returned("getMetrics", Undefined, getMetrics) /\ UNCHANGED reqs

\* the clock advances
Tick ==
  /\ now' = now + 1
  /\ ret' = [op |-> "tick", arg |-> Undefined, result |-> Undefined]
  /\ UNCHANGED <<users, contacts, activities, uuid, reqs>>

\* the wall clock is set back (new Date() is not monotonic)
ClockSetBack ==
  /\ \E t \in 0..(now - 1) : now' = t
  /\ ret' = [op |-> "clock", arg |-> Undefined, result |-> Undefined]
  /\ UNCHANGED <<users, contacts, activities, uuid, reqs>>

\* new MemStorage(): three empty maps
Init ==
  /\ users = <<>>
  /\ contacts = <<>>
  /\ activities = <<>>
  /\ uuid = 0
  /\ now = 0
  /\ ret = [op |-> "constructor", arg |-> Undefined, result |-> Undefined]
  /\ reqs = <<>>

(***************************************************************************)
(* Inputs.                                                                 *)
(***************************************************************************)
Ids == 1..MaxIds

Al == Str(<<"A", "l">>)
AlMail == Str(<<"a", "@", "x">>)
Dr == Str(<<"D", "r">>)

UserInputs == {[username |-> Al, password |-> Str(<<"p", "w">>)]}

BaseContact == [name |-> Al, email |-> AlMail]

ContactInputs ==
  {BaseContact, Spread(BaseContact, [status |-> Active, title |-> Dr])}

UpdateInputs ==
  {[status |-> Prospect, title |-> Undefined],
   [id |-> MaxIds, createdAt |-> -1, updatedAt |-> -1]}

ActivityInputs ==
  {[contactId |-> c, type |-> Str(<<"c">>), title |-> Str(<<"t">>)] : c \in Ids}

NoFilters == [search |-> Undefined, company |-> Undefined, status |-> Undefined]

(***************************************************************************)
(* Spec: the contacts of the repository under arbitrary calls, with a      *)
(* clock that does not go back.                                            *)
(***************************************************************************)
Next ==
  \/ \E d \in ContactInputs : uuid < MaxContacts /\ CallCreateContact(d)
  \/ \E id \in Ids, upd \in UpdateInputs : CallUpdateContact(id, upd)
  \/ \E id \in Ids : CallDeleteContact(id)
  \/ CallGetContacts(NoFilters)
  \/ CallGetMetrics
  \/ now < MaxClock /\ Tick

Spec == Init /\ [][Next]_vars

(***************************************************************************)
(* SpecCascade: users, contacts and their activities; activities may name  *)
(* any id, stored or not.                                                  *)
(***************************************************************************)
NextCascade ==
  \/ \E u \in UserInputs :
       Len(users) < MaxUsers /\ uuid < MaxIds /\ CallCreateUser(u)
  \/ CallGetUser(1)
  \/ \E u \in UserInputs : CallGetUserByUsername(u.username)
  \/ Len(contacts) < MaxContacts /\ uuid < MaxIds /\ CallCreateContact(BaseContact)
  \/ \E id \in Ids : CallDeleteContact(id)
  \/ \E a \in ActivityInputs :
       Len(activities) < MaxActivities /\ uuid < MaxIds /\ CallCreateActivity(a)
  \/ \E id \in {1, 2} : CallGetContact(id)
  \/ \E c \in {NoId, 1} : CallGetActivities(c)

SpecCascade == Init /\ [][NextCascade]_vars

(***************************************************************************)
(* SpecMetrics: contacts of every status are created, updated and deleted, *)
(* and the dashboard is read.                                              *)
(***************************************************************************)
MetricsIds == 1..(MetricsMaxContacts + 1)

MetricsContactInputs ==
  {BaseContact,
   Spread(BaseContact, [status |-> Prospect]),
   Spread(BaseContact, [status |-> Active])}

NextMetrics ==
  \/ \E d \in MetricsContactInputs :
       /\ Len(contacts) < MetricsMaxContacts
       /\ uuid < MetricsMaxContacts + 1
       /\ CallCreateContact(d)
  \/ \E id \in MetricsIds : CallUpdateContact(id, [status |-> Active])
  \/ \E id \in MetricsIds : CallDeleteContact(id)
  \/ CallGetMetrics

SpecMetrics == Init /\ [][NextMetrics]_vars

(***************************************************************************)
(* SpecToday: activities are created while the wall clock runs from the    *)
(* first midnight to the midnight that ends day MaxDays, and may be set    *)
(* back.                                                                   *)
(***************************************************************************)
TodayActivityInput == [contactId |-> 1, type |-> Str(<<"c">>), title |-> Str(<<"t">>)]

NextToday ==
  \/ uuid < TodayMaxActivities /\ CallCreateActivity(TodayActivityInput)
  \/ CallDeleteContact(1)
  \/ CallGetActivities(NoId)
  \/ CallGetMetrics
  \/ now < MaxDays * DayLen /\ Tick
  \/ ClockSetBack

SpecToday == Init /\ [][NextToday]_vars

(***************************************************************************)
(* SpecQuery: contacts that differ in name, email, company and status are  *)
(* stored, and getContacts is called with every combination of filters.    *)
(***************************************************************************)
All == Str(<<"a", "l", "l">>)
Empty == Str(<<>>)
Ac == Str(<<"A", "c">>)

QueryContactInputs ==
  {[name |-> Al, email |-> AlMail, company |-> Ac, status |-> Prospect],
   [name |-> Str(<<"B", "o">>), email |-> Str(<<"b", "@", "x">>), status |-> Active],
   [name |-> Str(<<"B", "o">>), email |-> AlMail, company |-> All, status |-> Empty]}

QueryUpdateInputs == {[company |-> Empty]}

\* a filter is undefined (absent), "", the sentinel "all" or a value
SearchInputs == {Undefined, Empty, Str(<<"X">>), Str(<<"a", "c">>)}
CompanyInputs == {Undefined, Empty, All, Ac}
StatusInputs == {Undefined, Empty, All, Prospect}

\* getContacts() is the call without a filters object
NoArgument == <<>>

FilterInputs ==
  {NoArgument}
    \cup [search : SearchInputs, company : CompanyInputs, status : StatusInputs]

\* the filters getContacts is called with as a step
QueryCalls ==
  {NoArgument,
   [status |-> All],
   [search |-> Undefined, company |-> Undefined, status |-> Empty],
   [search |-> Str(<<"a", "c">>), company |-> All, status |-> Prospect]}

QueryIds == 1..(QueryMaxContacts + 1)

NextQuery ==
  \/ \E d \in QueryContactInputs :
       /\ Len(contacts) < QueryMaxContacts
       /\ uuid < QueryMaxContacts + 1
       /\ CallCreateContact(d)
  \/ \E id \in QueryIds, upd \in QueryUpdateInputs : CallUpdateContact(id, upd)
  \/ \E id \in QueryIds : CallDeleteContact(id)
  \/ \E f \in QueryCalls : CallGetContacts(f)

SpecQuery == Init /\ [][NextQuery]_vars

(***************************************************************************)
(* The request handlers of registerRoutes.  A handler runs from the        *)
(* request to its await: it validates the body and calls the repository,   *)
(* whose method runs to its return within the call (no method of           *)
(* MemStorage awaits).  The handler is then suspended in reqs, with the    *)
(* value the call resolved to, until Respond resumes it; other handlers    *)
(* run in between.  A handler whose body fails validation responds at      *)
(* once.  For a DELETE, snap observes the ids of the activities that       *)
(* referenced the contact when the handler started.  The handlers modelled *)
(* are those that read or write a contact and its activities.  Any         *)
(* suspended handler may be the next to resume: this includes the order    *)
(* in which the runtime resumes them.                                      *)
(***************************************************************************)
\* insertContactSchema, insertActivitySchema: the columns that are notNull
\* and have no default are required, the omitted columns are not accepted
ContactRequired == {"name", "email"}
ContactKnown == {"name", "email", "phone", "company", "title", "status", "notes"}
ActivityRequired == {"contactId", "type", "title"}
ActivityKnown ==
  {"contactId", "type", "title", "description", "scheduledAt", "completedAt"}

\* schema.parse(body) throws a ZodError
ZodError(body, required) == ~(required \subseteq DOMAIN body)

\* the value schema.parse(body) returns: the known keys of the body
Parsed(body, known) == [f \in (DOMAIN body) \cap known |-> body[f]]

Await(handler, arg, result, snap) ==
  reqs' = Append(reqs, [handler |-> handler, arg |-> arg, result |-> result,
                        snap |-> snap])

Response(status, body) == [status |-> status, body |-> body]

RespondAtOnce(handler, response) ==
  /\ ret' = [op |-> "respond", arg |-> handler, result |-> response]
  /\ UNCHANGED <<users, contacts, activities, uuid, now, reqs>>

GetContactRoute(id) ==
  /\ Returned("getContact", id, getContact(id))
  /\ Await("GET /api/contacts/:id", id, getContact(id), {})

PostContactRoute(body) ==
  IF ZodError(body, ContactRequired)
    THEN RespondAtOnce("POST /api/contacts",
                       Response(400, "Invalid contact data"))
    ELSE /\ createContact(Parsed(body, ContactKnown))
         /\ Await("POST /api/contacts", body,
                  NewContact(Parsed(body, ContactKnown), uuid + 1, now), {})

ActivitiesOf(id) ==
  {activities[i].key : i \in {j \in 1..Len(activities) :
                                activities[j].val["contactId"] = id}}

DeleteContactRoute(id) ==
  /\ deleteContact(id)
  /\ Await("DELETE /api/contacts/:id", id, MapHas(contacts, id), ActivitiesOf(id))

GetActivitiesRoute(contactId) ==
  /\ Returned("getActivities", contactId, getActivities(contactId))
  /\ Await("GET /api/activities", contactId, getActivities(contactId), {})

PostActivityRoute(body) ==
  IF ZodError(body, ActivityRequired)
    THEN RespondAtOnce("POST /api/activities",
                       Response(400, "Invalid activity data"))
    ELSE /\ createActivity(Parsed(body, ActivityKnown))
         /\ Await("POST /api/activities", body,
                  NewActivity(Parsed(body, ActivityKnown), uuid + 1, now), {})

\* what the handler sends once its await has returned
ResponseOf(r) ==
  CASE r.handler = "GET /api/contacts/:id" ->
         IF r.result = Undefined
           THEN Response(404, "Contact not found")
           ELSE Response(200, r.result)
    [] r.handler = "DELETE /api/contacts/:id" ->
         IF ~r.result
           THEN Response(404, "Contact not found")
           ELSE Response(200, "Contact deleted successfully")
    [] r.handler \in {"POST /api/contacts", "POST /api/activities"} ->
         Response(201, r.result)
    [] OTHER -> Response(200, r.result)

Respond(i) ==
  /\ reqs' = SubSeq(reqs, 1, i - 1) \o SubSeq(reqs, i + 1, Len(reqs))
  /\ ret' = [op |-> "respond", arg |-> reqs[i].handler, result |-> ResponseOf(reqs[i])]
  /\ UNCHANGED <<users, contacts, activities, uuid, now>>

(***************************************************************************)
(* SpecRoutes: requests arrive at any time and their handlers interleave   *)
(* at their awaits; at most MaxReqs handlers are suspended at a time.      *)
(***************************************************************************)
RouteIds == {1, 2}

ContactBodies == {BaseContact, [name |-> Al]}

ActivityBodies ==
  {[contactId |-> 1, type |-> Str(<<"c">>), title |-> Str(<<"t">>)],
   [contactId |-> 1]}

NextRoutes ==
  \/ \E id \in RouteIds : Len(reqs) < MaxReqs /\ GetContactRoute(id)
  \/ \E body \in ContactBodies :
       Len(reqs) < MaxReqs /\ uuid < MaxIds /\ PostContactRoute(body)
  \/ \E id \in RouteIds : Len(reqs) < MaxReqs /\ DeleteContactRoute(id)
  \/ \E c \in {NoId, 1} : Len(reqs) < MaxReqs /\ GetActivitiesRoute(c)
  \/ \E body \in ActivityBodies :
       Len(reqs) < MaxReqs /\ uuid < MaxIds /\ PostActivityRoute(body)
  \/ \E i \in 1..Len(reqs) : Respond(i)

SpecRoutes == Init /\ [][NextRoutes]_vars

(***************************************************************************)
(* Claims checked under SpecCascade.                                       *)
(***************************************************************************)
IsDelete(r) == r.op = "deleteContact"

\* C1: deleteContact(id) for an id that is not a stored contact returns false
\* and leaves the users, contacts and activities collections exactly as they
\* were before the call.
C1_DeleteMissingChangesNothing ==
  [][(IsDelete(ret') /\ ~MapHas(contacts, ret'.arg))
       => (ret'.result = FALSE /\ UNCHANGED <<users, contacts, activities>>)]_vars

\* C3: deleteContact(id) on a stored contact returns true, and afterwards
\* getContact(id) is undefined and no activity returned by getActivities, with
\* or without a contactId argument, has contactId = id.
C3_DeleteCascades ==
  [][\A id \in Ids :
       (IsDelete(ret') /\ ret'.arg = id /\ MapHas(contacts, id))
         => /\ ret'.result = TRUE
            /\ getContact(id)' = Undefined
            /\ \A c \in Ids \cup {NoId} :
                 \A i \in 1..Len(getActivities(c)') :
                   getActivities(c)'[i]["contactId"] # id]_vars

\* a stored contact was deleted, the call deleted an activity of it, and an
\* activity of another contact is still stored
C3_Witness ==
  /\ IsDelete(ret) /\ ret.result = TRUE /\ ret.cascaded >= 1
  /\ getActivities(NoId) # <<>>

(***************************************************************************)
(* Claims checked under Spec.                                              *)
(***************************************************************************)
IsUpdate(r) == r.op = "updateContact"

\* C2: for every stored contact and every partialData, also one that carries
\* an id or createdAt field, the contact stored under id after
\* updateContact(id, partialData) has the same id and createdAt as before.
C2_UpdateKeepsIdAndCreatedAt ==
  [][\A id \in Ids :
       (IsUpdate(ret') /\ ret'.arg[1] = id /\ MapHas(contacts, id))
         => /\ MapHas(contacts', id)
            /\ getContact(id)'["id"] = getContact(id)["id"]
            /\ getContact(id)'["createdAt"] = getContact(id)["createdAt"]]_vars

OptionalFields == {"title", "phone", "company", "notes"}

\* C5: every stored contact has each of title, phone, company and notes set to
\* a value or to null, never undefined.
C5_OptionalFieldsNeverUndefined ==
  \A i \in 1..Len(contacts) :
    \A f \in OptionalFields : Get(contacts[i].val, f) # Undefined

\* C6: a contact created with no status in its input is stored with status
\* "prospect", is counted in getMetrics().activeLeads and is matched by
\* getContacts({status: "prospect"}).
C6_DefaultStatusProspect ==
  (ret.op = "createContact" /\ "status" \notin DOMAIN ret.arg)
    => /\ Get(getContact(ret.result["id"]), "status") = Prospect
       /\ getMetrics.activeLeads >= 1
       /\ \E i \in 1..Len(getContacts([status |-> Prospect])) :
            getContacts([status |-> Prospect])[i]["id"] = ret.result["id"]

SortedByUpdatedAt(list) ==
  \A i \in 1..Len(list) : \A j \in 1..Len(list) :
    i < j => list[i]["updatedAt"] >= list[j]["updatedAt"]

\* C10: the list getContacts() returns is ordered by updatedAt descending, so
\* the contact created or updated last is not preceded by a contact with a
\* strictly older updatedAt.
C10_ContactsSortedByUpdatedAt ==
  LET list == getContacts(NoFilters)
  IN /\ SortedByUpdatedAt(list)
     /\ (ret.op \in {"createContact", "updateContact"} /\ ret.result # Undefined)
          => \A i \in 1..Len(list) : \A j \in 1..Len(list) :
               (i < j /\ list[j] = ret.result)
                 => list[i]["updatedAt"] >= ret.result["updatedAt"]

\* the older of two contacts was updated after the newer one was created, so
\* the Map's order and the order of getContacts() differ
C10_Witness ==
  /\ IsUpdate(ret) /\ ret.result # Undefined
  /\ Len(contacts) = 2
  /\ contacts[1].val = ret.result
  /\ contacts[1].val["updatedAt"] > contacts[2].val["updatedAt"]
  /\ getContacts(NoFilters)[1] = ret.result

(***************************************************************************)
(* Claims checked under SpecMetrics and SpecToday.                         *)
(***************************************************************************)
StoredWithStatus(status) ==
  {k \in MapKeys(contacts) : Get(MapGet(contacts, k), "status") = status}

\* tenths is a multiple of 0.1 nearest to the percentage 100 * part / whole
NearestTenth(tenths, part, whole) ==
  LET diff == tenths * whole - 1000 * part
  IN 2 * (IF diff < 0 THEN -diff ELSE diff) <= whole

\* C8: getMetrics() returns totalContacts = the number of stored contacts,
\* activeLeads = the number of them with status "prospect", and conversionRate
\* = (number with status "active") / totalContacts * 100 rounded to one
\* decimal place, 0 when there are no contacts.
C8_MetricsCounts ==
  LET total == Cardinality(MapKeys(contacts))
      m == getMetrics
  IN /\ m.totalContacts = total
     /\ m.activeLeads = Cardinality(StoredWithStatus(Prospect))
     /\ total = 0 => m.conversionRate = 0
     /\ total > 0 =>
          NearestTenth(m.conversionRate, Cardinality(StoredWithStatus(Active)), total)
     /\ ret.op = "getMetrics" => ret.result = m

\* getMetrics() was called on contacts of statuses prospect, prospect, active,
\* active and returned 4, 2 and 50.0
C8_Witness ==
  /\ ret.op = "getMetrics"
  /\ Len(contacts) = 4
  /\ \A i \in {1, 2} : Get(contacts[i].val, "status") = Prospect
  /\ \A i \in {3, 4} : Get(contacts[i].val, "status") = Active
  /\ ret.result.totalContacts = 4
  /\ ret.result.activeLeads = 2
  /\ ret.result.conversionRate = 500

\* the calendar day a date falls in
DayOf(date) == date \div DayLen

\* C9: getMetrics().todayActivities is the number of stored activities created
\* on the calendar day of the call, midnight today included and midnight
\* tomorrow excluded.
C9_TodayActivities ==
  /\ getMetrics.todayActivities
       = Cardinality({k \in MapKeys(activities) :
                        DayOf(MapGet(activities, k)["createdAt"]) = DayOf(now)})
  /\ ret.op = "getMetrics" => ret.result = getMetrics

\* getMetrics() was called with one activity created at midnight today, one at
\* the last instant of yesterday and one at midnight tomorrow, and counted one
C9_Witness ==
  /\ ret.op = "getMetrics"
  /\ ret.result.todayActivities = 1
  /\ \E i \in 1..Len(activities) : activities[i].val["createdAt"] = StartOfDay(now)
  /\ \E i \in 1..Len(activities) : activities[i].val["createdAt"] = StartOfDay(now) - 1
  /\ \E i \in 1..Len(activities) :
       activities[i].val["createdAt"] = NextDay(StartOfDay(now))

(***************************************************************************)
(* Claims checked under SpecQuery.                                         *)
(***************************************************************************)
\* sub occurs in text when the case of letters is ignored
ContainsIgnoringCase(text, sub) ==
  \E i \in 0..(Len(text) - Len(sub)) :
    \A j \in 1..Len(sub) : LowerChar(text[i + j]) = LowerChar(sub[j])

SatisfiesSearch(contact, search) ==
  \/ ContainsIgnoringCase(contact["name"].s, search.s)
  \/ ContainsIgnoringCase(contact["email"].s, search.s)
  \/ /\ Get(contact, "company").kind = "string"
     /\ ContainsIgnoringCase(contact["company"].s, search.s)

\* whether the company or status filter v imposes a restriction: not when it
\* is absent or "all", and when it is "" only if emptyRestricts
Restricts(v, emptyRestricts) ==
  v.kind = "string" /\ v # All /\ (emptyRestricts \/ v # Empty)

\* the stored contacts that satisfy the filters
Satisfying(filters, emptyRestricts) ==
  {k \in MapKeys(contacts) :
     LET contact == MapGet(contacts, k)
     IN /\ Get(filters, "search").kind = "string"
             => SatisfiesSearch(contact, filters["search"])
        /\ Restricts(Get(filters, "company"), emptyRestricts)
             => Get(contact, "company") = filters["company"]
        /\ Restricts(Get(filters, "status"), emptyRestricts)
             => Get(contact, "status") = filters["status"]}

\* the list holds exactly the contacts stored under keys, each once
ExactlyTheContacts(list, keys) ==
  /\ Len(list) = Cardinality(keys)
  /\ {list[i] : i \in 1..Len(list)} = {MapGet(contacts, k) : k \in keys}

SameContacts(list1, list2) ==
  /\ Len(list1) = Len(list2)
  /\ {list1[i] : i \in 1..Len(list1)} = {list2[i] : i \in 1..Len(list2)}

CascadeInFlight(r) == r.handler = "DELETE /api/contacts/:id" /\ r.result

\* C4: while handlers interleave at their awaits, no state is observable in
\* which a DELETE has removed the contact and an activity that referenced it
\* when the DELETE started is still stored.
C4_NoIntermediateCascadeState ==
  \A i \in 1..Len(reqs) :
    CascadeInFlight(reqs[i])
      => /\ getContact(reqs[i].arg) = Undefined
         /\ reqs[i].snap \cap MapKeys(activities) = {}
         /\ \A j \in 1..Len(getActivities(NoId)) :
              getActivities(NoId)[j]["id"] \notin reqs[i].snap

\* a DELETE that cascaded is suspended at its await while a later
\* GET /api/activities, started after a POST /api/activities for the deleted
\* contact, is suspended too
C4_Witness ==
  /\ Len(reqs) = 2
  /\ CascadeInFlight(reqs[1])
  /\ reqs[1].snap # {}
  /\ reqs[2].handler = "GET /api/activities"
  /\ reqs[2].result # <<>>
  /\ reqs[2].result[1]["contactId"] = reqs[1].arg

====
